---- MODULE Spec2Model ----
(***************************************************************************)
(* Model of class Cmd (src/cmd.cpp): a supervisor of one QProcess child.   *)
(*                                                                         *)
(* Everything runs on one thread.  Signals are delivered by direct         *)
(* connection, so a slot connected to one of Cmd's signals runs inside the *)
(* emit statement and may call Cmd's public operations before the emitting *)
(* function goes on.  The model therefore keeps the C++ call stack: a      *)
(* sequence of frames, the last one executing.  A frame whose pc is an     *)
(* "emit_..." label is inside an emit statement: the subscribers are       *)
(* running.  A run frame at "loop" is inside QEventLoop::exec(), which     *)
(* dispatches timer, process and user events.  The empty stack is the      *)
(* caller's own event loop.                                                *)
(***************************************************************************)
EXTENDS Integers, Sequences, FiniteSets, TLC

\* ---------------------------------------------------------------- bounds
MaxRuns == 2        \* accepted run() calls
MaxCalls == 2       \* calls of public operations made by the caller and by subscribers
MaxChunks == 2      \* chunks the children write to stdout/stderr in total
MaxElapsed == 2     \* ticks delivered within one run
MaxFifoCalls == 2   \* calls of the fifo operations, and lines written into the fifo by others

\* ------------------------------------------------------- input domains
EstValues == {10, 50}             \* est_duration arguments (10 is the header's default)
DebugLevels == {0, 2, 3}          \* debug < 2, debug == 2, debug > 2
NormalExit == 0                   \* QProcess::NormalExit
CrashExit == 1                    \* QProcess::CrashExit
\* how a child ends by itself: exit 0, exit 7, or a crash the OS reports with code 0
ExitOutcomes ==
  { [code |-> 0, status |-> NormalExit],
    [code |-> 7, status |-> NormalExit],
    [code |-> 0, status |-> CrashExit] }
Streams == {"stdout", "stderr"}
Paths == {"p", "q"}               \* file names given to connectFifo

VARIABLES
  stack,          \* the call stack, last frame executing
  procState,      \* proc->state(): "NotRunning" or "Running"
  exitCode,       \* proc->exitCode()
  exitStatus,     \* proc->exitStatus()
  stopped,        \* the child has received SIGSTOP and no SIGCONT since
  timerActive,    \* timer->isActive()
  elapsed_time,   \* Cmd::elapsed_time
  est_duration,   \* Cmd::est_duration
  out,            \* Cmd::out, a sequence of chunks
  err,            \* Cmd::err
  line_out,       \* Cmd::line_out (a member, shared by every activation of the slot)
  line_err,       \* Cmd::line_err
  debug,          \* Cmd::debug
  quitNow,        \* QCoreApplication::exit() has been called
  ret,            \* the value the last returning operation gave back
  \* history variables, read by the properties only
  runCount,       \* accepted runs so far; the n-th accepted run has id n
  calls,          \* calls of public operations so far
  produced,       \* chunks written by children so far
  procRun,        \* id of the run that spawned proc's current (or last) child
  live,           \* ids of the runs whose child has not terminated
  childExit,      \* per run id: how its child terminated, once it has
  startedCount,   \* per run id: emissions of started()
  finishedCount,  \* per run id: emissions of finished() for its child
  finishedLive,   \* some finished() was emitted while isRunning() was true
  emittedOut,     \* chunks emitted through outputAvailable since the last accepted run
  emittedErr,     \* chunks emitted through errorAvailable since the last accepted run
  ticks,          \* (elapsed, estimated) pairs emitted through runTime since the last accepted run
  paused,         \* pause() succeeded on the live child and resume() has not been called since
  \* the fifo
  fifoName,       \* fifo.fileName(), "" when none was set
  fifoOpen,       \* fifo.isOpen()
  watched,        \* file_watch.files(): the paths added with addPath
  watchConns,     \* connections of file_watch's fileChanged to Cmd::fifoChanged
  fifoData,       \* lines readable from the open fifo, each "self" or "ext" after its writer
  pending,        \* watched paths with a change the watcher has not yet signalled
  fifoEmitted,    \* history: the lines emitted through fifoChangeAvailable
  fifoCalls,      \* history: fifo operations and foreign writes so far
  destroyed       \* Cmd::~Cmd has completed

procVars == <<procState, exitCode, exitStatus, stopped, procRun, live, childExit>>
bufVars == <<out, err, line_out, line_err, emittedOut, emittedErr, produced>>
tickVars == <<elapsed_time, est_duration, ticks>>
sigVars == <<startedCount, finishedCount, finishedLive>>
fifoVars == <<fifoName, fifoOpen, watched, watchConns, fifoData, pending, fifoEmitted, fifoCalls>>
vars == <<stack, procState, exitCode, exitStatus, stopped, timerActive, elapsed_time,
          est_duration, out, err, line_out, line_err, debug, quitNow, ret, runCount,
          calls, produced, procRun, live, childExit, startedCount, finishedCount,
          finishedLive, emittedOut, emittedErr, ticks, paused, fifoName, fifoOpen,
          watched, watchConns, fifoData, pending, fifoEmitted, fifoCalls, destroyed>>

RunIds == 1..MaxRuns

\* ----------------------------------------------------------- call stack
\* fn: the function; pc: where it is; id: the run's id (0: not an accepted run);
\* optQuiet: run's "quiet" option; quiet: run's local; spawned: waitForStarted's
\* result; conn: run's QEventLoop exists and is connected to proc's finished();
\* ex: that loop has been told to quit; n: for a delivery of fileChanged, the
\* connected slots still to be called.
Frame(fn) ==
  [fn |-> fn, pc |-> "start", id |-> 0, optQuiet |-> FALSE, quiet |-> TRUE,
   spawned |-> FALSE, conn |-> FALSE, ex |-> FALSE, n |-> 0]

NoReturn == [fn |-> "none", val |-> 0, ok |-> FALSE, id |-> 0]
NoExit == [done |-> FALSE, code |-> 0, status |-> 0]

Top == stack[Len(stack)]
Pop == SubSeq(stack, 1, Len(stack) - 1)
SetTop(f) == [stack EXCEPT ![Len(stack)] = f]
\* nothing runs on a destroyed object
At(fn, pc) == ~destroyed /\ stack # <<>> /\ Top.fn = fn /\ Top.pc = pc

EmitPcs ==
  {"emit_started", "emit_finished", "emit_output", "emit_error", "emit_runTime", "emit_fifo"}

\* Cmd::isRunning
isRunning == procState # "NotRunning"

\* control is inside QEventLoop::exec() of the innermost run, or in the caller's loop
AtLoop ==
  \/ ~destroyed /\ stack = <<>> /\ ~quitNow
  \/ At("run", "loop") /\ ~Top.ex

\* a place where code outside Cmd runs: a subscriber's slot, or an event handler
\* dispatched by the loop, or the caller between two calls
UserPoint ==
  \/ ~destroyed /\ stack = <<>>
  \/ ~destroyed /\ stack # <<>> /\ Top.pc \in EmitPcs
  \/ At("run", "loop") /\ ~Top.ex

\* QEventLoop::quit on every loop connected to proc's finished(int)
QuitLoops(s) ==
  [i \in DOMAIN s |-> IF s[i].fn = "run" /\ s[i].conn THEN [s[i] EXCEPT !.ex = TRUE] ELSE s[i]]

Init ==
  /\ stack = <<>>
  /\ procState = "NotRunning"
  /\ exitCode = 0
  /\ exitStatus = NormalExit
  /\ stopped = FALSE
  /\ timerActive = FALSE
  /\ elapsed_time = 0
  /\ est_duration = 0
  /\ out = <<>>
  /\ err = <<>>
  /\ line_out = <<>>
  /\ line_err = <<>>
  /\ debug \in DebugLevels
  /\ quitNow = FALSE
  /\ ret = NoReturn
  /\ runCount = 0
  /\ calls = 0
  /\ produced = 0
  /\ procRun = 0
  /\ live = {}
  /\ childExit = [i \in RunIds |-> NoExit]
  /\ startedCount = [i \in RunIds |-> 0]
  /\ finishedCount = [i \in RunIds |-> 0]
  /\ finishedLive = FALSE
  /\ emittedOut = <<>>
  /\ emittedErr = <<>>
  /\ ticks = <<>>
  /\ paused = FALSE
  /\ fifoName = ""
  /\ fifoOpen = FALSE
  /\ watched = {}
  /\ watchConns = 0
  /\ fifoData = <<>>
  /\ pending = {}
  /\ fifoEmitted = <<>>
  /\ fifoCalls = 0
  /\ destroyed = FALSE

\* ------------------------------------------------------- shared effects
\* fn returned: val to an int caller, ok to a bool caller; id is the run's id
Ret(fn, val, ok, id) == [fn |-> fn, val |-> val, ok |-> ok, id |-> id]

\* QProcess notices the death of its child: its state becomes NotRunning, the exit
\* code and status are stored and finished(int) is emitted, which runs the
\* connected slots: timer->stop (line 35), then quit of every connected loop
\* (line 77).  s is the call stack at that point.
ProcessFinished(code, status, s) ==
  /\ procState' = "NotRunning"
  /\ exitCode' = code
  /\ exitStatus' = status
  /\ stopped' = FALSE
  /\ paused' = FALSE
  /\ live' = live \ {procRun}
  /\ childExit' = [childExit EXCEPT ![procRun] = [done |-> TRUE, code |-> code, status |-> status]]
  /\ timerActive' = FALSE
  /\ stack' = QuitLoops(s)
  /\ UNCHANGED procRun

\* emit finished(proc->exitCode(), proc->exitStatus()) for the child of run id,
\* in a state where isRunning() is running
EmitFinished(id, running) ==
  /\ finishedCount' = [finishedCount EXCEPT ![id] = @ + 1]
  /\ finishedLive' = (finishedLive \/ running)
  /\ UNCHANGED startedCount

\* Cmd::getExitCode: the crash status goes before the exit code; quiet and debug
\* select the diagnostics only
getExitCode(quiet) ==
  LET q == IF debug < 2 THEN TRUE ELSE IF debug > 2 THEN FALSE ELSE quiet
  IN  IF exitStatus # 0 THEN exitStatus ELSE exitCode

\* ------------------------------------------------------------ Cmd::run
\* run with the reset of lines 59-62 placed before the check of line 53
RunRejectedAfterReset ==
  /\ isRunning
  /\ ret' = Ret("run", -1, FALSE, 0)
  /\ elapsed_time' = 0
  /\ out' = <<>>
  /\ err' = <<>>
  /\ UNCHANGED <<stack, procVars, line_out, line_err, emittedOut, emittedErr, produced,
                 est_duration, ticks, sigVars, timerActive, debug, quitNow, runCount, paused>>

\* run with the emit of line 68 placed before the check of line 53
RunRejectedNotifies ==
  /\ isRunning
  /\ ret' = Ret("run", -1, FALSE, 0)
  /\ startedCount' = [startedCount EXCEPT ![procRun] = @ + 1]
  /\ UNCHANGED <<stack, procVars, bufVars, tickVars, finishedCount, finishedLive,
                 timerActive, debug, quitNow, runCount, paused>>

\* lines 53-56: a child is live
RunRejected ==
  /\ isRunning
  /\ ret' = Ret("run", -1, FALSE, 0)
  /\ UNCHANGED <<stack, procVars, bufVars, tickVars, sigVars, timerActive, debug,
                 quitNow, runCount, paused>>

\* lines 58-68: reset, proc->start, proc->waitForStarted, emit started().
\* waitForStarted's result is not looked at; when the shell could not be
\* started proc stays NotRunning and emits no finished().
RunAccepted(est, optQuiet) ==
  /\ ~isRunning
  /\ runCount < MaxRuns
  /\ \E ok \in BOOLEAN :
       /\ procState' = IF ok THEN "Running" ELSE "NotRunning"
       /\ live' = IF ok THEN live \cup {runCount + 1} ELSE live
       /\ stack' = Append(stack, [Frame("run") EXCEPT !.pc = "emit_started", !.id = runCount + 1,
                                    !.optQuiet = optQuiet, !.spawned = ok])
  /\ runCount' = runCount + 1
  /\ procRun' = runCount + 1
  /\ est_duration' = est
  /\ elapsed_time' = 0
  /\ out' = <<>>
  /\ err' = <<>>
  /\ exitCode' = 0
  /\ exitStatus' = NormalExit
  /\ stopped' = FALSE
  /\ paused' = FALSE
  /\ startedCount' = [startedCount EXCEPT ![runCount + 1] = @ + 1]
  /\ emittedOut' = <<>>
  /\ emittedErr' = <<>>
  /\ ticks' = <<>>
  /\ UNCHANGED <<childExit, line_out, line_err, produced, finishedCount, finishedLive,
                 timerActive, debug, quitNow, ret>>

\* the caller, a subscriber or an event handler calls run
Run(est, optQuiet) ==
  /\ UserPoint
  /\ calls < MaxCalls
  /\ calls' = calls + 1
  /\ RunRejected \/ RunAccepted(est, optQuiet)
  /\ UNCHANGED <<fifoVars, destroyed>>

\* lines 70-85: the subscribers of started() have returned; timer->start, the
\* loop is created and connected, quiet is computed, loop.exec() is entered.
\* exec() returns at once when QCoreApplication::exit() was called before.
\* The interval ("slowtick": 1000 ms, else 100 ms) only sets how often the timer
\* fires; the model has no clock, so the option is not an input.
RunEnterLoop ==
  /\ At("run", "emit_started")
  /\ timerActive' = TRUE
  /\ stack' = SetTop([Top EXCEPT !.pc = "loop", !.conn = TRUE, !.ex = quitNow,
                       !.optQuiet = FALSE,
                       !.quiet = IF debug = 2 THEN Top.optQuiet
                                 ELSE IF debug > 2 THEN FALSE ELSE TRUE])
  /\ UNCHANGED <<procVars, bufVars, tickVars, sigVars, debug, quitNow, ret, runCount,
                 calls, paused>>
  /\ UNCHANGED <<fifoVars, destroyed>>

\* lines 85-94 when the child is not running after the loop: emit finished
RunLoopDone ==
  /\ At("run", "loop") /\ Top.ex
  /\ ~isRunning
  /\ stack' = SetTop([Top EXCEPT !.pc = "emit_finished"])
  /\ EmitFinished(Top.id, FALSE)
  /\ UNCHANGED <<procVars, bufVars, tickVars, timerActive, debug, quitNow, ret, runCount,
                 calls, paused>>
  /\ UNCHANGED <<fifoVars, destroyed>>

\* lines 88-89: the loop has returned and the child is still running: terminate()
RunFallbackTerminate ==
  /\ At("run", "loop") /\ Top.ex
  /\ isRunning
  /\ stack' = Append(SetTop([Top EXCEPT !.pc = "after_terminate"]),
                     [Frame("terminate") EXCEPT !.pc = "wait"])
  /\ UNCHANGED <<procVars, bufVars, tickVars, sigVars, timerActive, debug, quitNow, ret,
                 runCount, calls, paused>>
  /\ UNCHANGED <<fifoVars, destroyed>>

\* lines 89-90: terminate() has returned false, which it does only while the child
\* is running (line 121): kill() passes its line 101 and sends SIGKILL
RunFallbackKill ==
  /\ At("run", "after_terminate")
  /\ ret.fn = "terminate" /\ ~ret.ok
  /\ stack' = Append(SetTop([Top EXCEPT !.pc = "after_kill"]),
                     [Frame("kill") EXCEPT !.pc = "wait"])
  /\ UNCHANGED <<procVars, bufVars, tickVars, sigVars, timerActive, debug, quitNow, ret,
                 runCount, calls, paused>>
  /\ UNCHANGED <<fifoVars, destroyed>>

\* line 94 after the fallback: emit finished, whatever the fallback achieved
RunFallbackDone ==
  /\ \/ At("run", "after_terminate") /\ ret.fn = "terminate" /\ ret.ok
     \/ At("run", "after_kill")
  /\ stack' = SetTop([Top EXCEPT !.pc = "emit_finished"])
  /\ EmitFinished(Top.id, isRunning)
  /\ UNCHANGED <<procVars, bufVars, tickVars, timerActive, debug, quitNow, ret, runCount,
                 calls, paused>>
  /\ UNCHANGED <<fifoVars, destroyed>>

\* line 95: the subscribers of finished() have returned; return getExitCode(quiet)
RunReturn ==
  /\ At("run", "emit_finished")
  /\ ret' = Ret("run", getExitCode(Top.quiet), TRUE, Top.id)
  /\ stack' = Pop
  /\ UNCHANGED <<procVars, bufVars, tickVars, sigVars, timerActive, debug, quitNow,
                 runCount, calls, paused>>
  /\ UNCHANGED <<fifoVars, destroyed>>
\* ------------------------------------------- Cmd::kill, Cmd::terminate
\* lines 101-103 and 114-116 with the result of lines 108 and 121 of a child
\* that outlived the wait
StopNoChildFails(fn) ==
  /\ ~isRunning
  /\ ret' = Ret(fn, 0, FALSE, 0)
  /\ UNCHANGED <<stack, procVars, bufVars, tickVars, sigVars, timerActive, debug, quitNow,
                 runCount, paused>>

\* lines 101-103 and 114-116: no child is running
StopNoChild(fn) ==
  /\ ~isRunning
  /\ ret' = Ret(fn, 0, TRUE, 0)
  /\ UNCHANGED <<stack, procVars, bufVars, tickVars, sigVars, timerActive, debug, quitNow,
                 runCount, paused>>

\* lines 104-106 and 117-119: the signal is sent and waitForFinished(1000) entered
StopSignal(fn) ==
  /\ isRunning
  /\ stack' = Append(stack, [Frame(fn) EXCEPT !.pc = "wait"])
  /\ UNCHANGED <<procVars, bufVars, tickVars, sigVars, timerActive, debug, quitNow, ret,
                 runCount, paused>>

\* the caller, a subscriber or an event handler calls kill
Kill ==
  /\ UserPoint
  /\ calls < MaxCalls
  /\ calls' = calls + 1
  /\ StopNoChild("kill") \/ StopSignal("kill")
  /\ UNCHANGED <<fifoVars, destroyed>>

\* the caller, a subscriber or an event handler calls terminate
Terminate ==
  /\ UserPoint
  /\ calls < MaxCalls
  /\ calls' = calls + 1
  /\ StopNoChild("terminate") \/ StopSignal("terminate")
  /\ UNCHANGED <<fifoVars, destroyed>>

InWait == ~destroyed /\ stack # <<>> /\ Top.fn \in {"kill", "terminate"} /\ Top.pc = "wait"

\* waitForFinished(1000) sees the child die: of SIGKILL (crash status, code 9); of
\* SIGTERM (crash status, code 15) or through the child's own handler of SIGTERM
\* (a normal exit), neither of which a stopped child gets to.  Then lines 107/120
\* emit finished.
WaitDied ==
  /\ InWait
  /\ isRunning
  /\ \E o \in IF Top.fn = "kill"
                THEN {[code |-> 9, status |-> CrashExit]}
                ELSE IF stopped THEN {}
                ELSE {[code |-> 15, status |-> CrashExit]} \cup
                     {x \in ExitOutcomes : x.status = NormalExit} :
       ProcessFinished(o.code, o.status, SetTop([Top EXCEPT !.pc = "emit_finished"]))
  /\ EmitFinished(procRun, FALSE)
  /\ UNCHANGED <<bufVars, tickVars, debug, quitNow, ret, runCount, calls>>
  /\ UNCHANGED <<fifoVars, destroyed>>

\* waitForFinished(1000) returns false: after 1000 ms with the child still
\* running, or at once when a handler called during the wait has ended the
\* child already; lines 107/120 emit finished all the same
WaitTimeout ==
  /\ InWait
  /\ stack' = SetTop([Top EXCEPT !.pc = "emit_finished"])
  /\ EmitFinished(procRun, isRunning)
  /\ UNCHANGED <<procVars, bufVars, tickVars, timerActive, debug, quitNow, ret, runCount,
                 calls, paused>>
  /\ UNCHANGED <<fifoVars, destroyed>>

\* lines 105-108 and 118-121 as a loop: with the child still running after the
\* subscribers of finished() have returned, signal and wait again
StopRetries ==
  /\ ~destroyed
  /\ stack # <<>> /\ Top.fn \in {"kill", "terminate"} /\ Top.pc = "emit_finished"
  /\ IF isRunning
       THEN stack' = SetTop([Top EXCEPT !.pc = "wait"]) /\ UNCHANGED ret
       ELSE stack' = Pop /\ ret' = Ret(Top.fn, 0, TRUE, 0)
  /\ UNCHANGED <<procVars, bufVars, tickVars, sigVars, timerActive, debug, quitNow,
                 runCount, calls, paused>>
  /\ UNCHANGED <<fifoVars, destroyed>>

\* lines 108/121: the subscribers of finished() have returned; return !isRunning()
StopReturn ==
  /\ ~destroyed
  /\ stack # <<>> /\ Top.fn \in {"kill", "terminate"} /\ Top.pc = "emit_finished"
  /\ ret' = Ret(Top.fn, 0, ~isRunning, 0)
  /\ stack' = Pop
  /\ UNCHANGED <<procVars, bufVars, tickVars, sigVars, timerActive, debug, quitNow,
                 runCount, calls, paused>>
  /\ UNCHANGED <<fifoVars, destroyed>>

\* ------------------------------------------- Cmd::pause, Cmd::resume
\* lines 158-165; kill -STOP on the pid of a running child succeeds
Pause ==
  /\ UserPoint
  /\ calls < MaxCalls
  /\ calls' = calls + 1
  /\ IF ~isRunning
       THEN /\ ret' = Ret("pause", 0, FALSE, 0)
            /\ UNCHANGED <<timerActive, stopped, paused>>
       ELSE /\ timerActive' = FALSE
            /\ stopped' = TRUE
            /\ paused' = TRUE
            /\ ret' = Ret("pause", 0, TRUE, 0)
  /\ UNCHANGED <<stack, procState, exitCode, exitStatus, procRun, live, childExit, bufVars,
                 tickVars, sigVars, debug, quitNow, runCount>>
  /\ UNCHANGED <<fifoVars, destroyed>>

\* lines 171-178; processId() is 0 exactly when proc is NotRunning
Resume ==
  /\ UserPoint
  /\ calls < MaxCalls
  /\ calls' = calls + 1
  /\ IF procState = "NotRunning"
       THEN /\ ret' = Ret("resume", 0, FALSE, 0)
            /\ UNCHANGED <<timerActive, stopped, paused>>
       ELSE /\ timerActive' = TRUE
            /\ stopped' = FALSE
            /\ paused' = FALSE
            /\ ret' = Ret("resume", 0, TRUE, 0)
  /\ UNCHANGED <<stack, procState, exitCode, exitStatus, procRun, live, childExit, bufVars,
                 tickVars, sigVars, debug, quitNow, runCount>>
  /\ UNCHANGED <<fifoVars, destroyed>>

\* Cmd::setDebug.  (Cmd::writeToProc writes to the child's stdin and changes
\* nothing of Cmd; Cmd::getOutput and Cmd::getError only read out and err.)
setDebug(level) ==
  /\ UserPoint
  /\ calls < MaxCalls
  /\ calls' = calls + 1
  /\ debug' = level
  /\ UNCHANGED <<stack, procVars, bufVars, tickVars, sigVars, timerActive, quitNow, ret,
                 runCount, paused>>
  /\ UNCHANGED <<fifoVars, destroyed>>

\* ------------------------------------------------------- Cmd::tick
\* line 216 with the increment after the emit: emit runTime(elapsed_time++, ...)
tickPostIncrement ==
  /\ AtLoop
  /\ timerActive
  /\ elapsed_time < MaxElapsed
  /\ elapsed_time' = elapsed_time + 1
  /\ ticks' = Append(ticks, <<elapsed_time, est_duration>>)
  /\ stack' = Append(stack, [Frame("tick") EXCEPT !.pc = "emit_runTime"])
  /\ UNCHANGED <<procVars, bufVars, sigVars, est_duration, timerActive, debug, quitNow,
                 ret, runCount, calls, paused>>
  /\ UNCHANGED <<fifoVars, destroyed>>

\* the timer fires while a loop is dispatching: ++elapsed_time, emit runTime
tick ==
  /\ AtLoop
  /\ timerActive
  /\ elapsed_time < MaxElapsed
  /\ elapsed_time' = elapsed_time + 1
  /\ ticks' = Append(ticks, <<elapsed_time + 1, est_duration>>)
  /\ stack' = Append(stack, [Frame("tick") EXCEPT !.pc = "emit_runTime"])
  /\ UNCHANGED <<procVars, bufVars, sigVars, est_duration, timerActive, debug, quitNow,
                 ret, runCount, calls, paused>>
  /\ UNCHANGED <<fifoVars, destroyed>>

\* the subscribers of runTime() have returned
tickReturn ==
  /\ At("tick", "emit_runTime")
  /\ stack' = Pop
  /\ UNCHANGED <<procVars, bufVars, tickVars, sigVars, timerActive, debug, quitNow, ret,
                 runCount, calls, paused>>
  /\ UNCHANGED <<fifoVars, destroyed>>

\* --------------------- Cmd::onStdoutAvailable, Cmd::onStderrAvailable
\* QProcess delivers ready-read notifications from a dispatching loop and from
\* inside waitForFinished
CanRead == procState = "Running" /\ (AtLoop \/ InWait) /\ produced < MaxChunks

\* lines 197-200: the child has written a (non-empty) chunk; readAllStandardOutput
\* stores it in the member line_out, and it is emitted
onStdoutAvailable ==
  /\ CanRead
  /\ produced' = produced + 1
  /\ line_out' = <<produced + 1>>
  /\ emittedOut' = Append(emittedOut, produced + 1)
  /\ stack' = Append(stack, [Frame("onStdoutAvailable") EXCEPT !.pc = "emit_output"])
  /\ UNCHANGED <<procVars, tickVars, sigVars, out, err, line_err, emittedErr, timerActive,
                 debug, quitNow, ret, runCount, calls, paused>>
  /\ UNCHANGED <<fifoVars, destroyed>>

\* line 201: the subscribers have returned; buffer_out << line_out
StdoutAppend ==
  /\ At("onStdoutAvailable", "emit_output")
  /\ out' = out \o line_out
  /\ stack' = Pop
  /\ UNCHANGED <<procVars, tickVars, sigVars, err, line_out, line_err, emittedOut,
                 emittedErr, produced, timerActive, debug, quitNow, ret, runCount, calls,
                 paused>>
  /\ UNCHANGED <<fifoVars, destroyed>>

\* lines 206-209
onStderrAvailable ==
  /\ CanRead
  /\ produced' = produced + 1
  /\ line_err' = <<produced + 1>>
  /\ emittedErr' = Append(emittedErr, produced + 1)
  /\ stack' = Append(stack, [Frame("onStderrAvailable") EXCEPT !.pc = "emit_error"])
  /\ UNCHANGED <<procVars, tickVars, sigVars, out, err, line_out, emittedOut, timerActive,
                 debug, quitNow, ret, runCount, calls, paused>>
  /\ UNCHANGED <<fifoVars, destroyed>>

\* line 210: buffer_err << line_err
StderrAppend ==
  /\ At("onStderrAvailable", "emit_error")
  /\ err' = err \o line_err
  /\ stack' = Pop
  /\ UNCHANGED <<procVars, tickVars, sigVars, out, line_out, line_err, emittedOut,
                 emittedErr, produced, timerActive, debug, quitNow, ret, runCount, calls,
                 paused>>
  /\ UNCHANGED <<fifoVars, destroyed>>

\* ------------------------------------------------------- environment
\* the child ends by itself (a stopped child does not) and a dispatching loop
\* delivers QProcess's notification
ChildExits ==
  /\ AtLoop
  /\ procState = "Running"
  /\ ~stopped
  /\ \E o \in ExitOutcomes : ProcessFinished(o.code, o.status, stack)
  /\ UNCHANGED <<bufVars, tickVars, sigVars, debug, quitNow, ret, runCount, calls>>
  /\ UNCHANGED <<fifoVars, destroyed>>

\* QCoreApplication::exit(): every QEventLoop::exec() of the thread returns, which
\* is how the loop of line 85 can return while the child is running
AppQuit ==
  /\ UserPoint
  /\ ~quitNow
  /\ quitNow' = TRUE
  /\ stack' = QuitLoops(stack)
  /\ UNCHANGED <<procVars, bufVars, tickVars, sigVars, timerActive, debug, ret, runCount,
                 calls, paused>>
  /\ UNCHANGED <<fifoVars, destroyed>>

\* ------------------------------------------- Cmd::~Cmd
\* lines 242-248 as a step of another function: file_watch.disconnect() removes
\* the connections of the watcher, fifo.close() closes the file; the watcher's
\* list of paths is not touched
FifoClosed ==
  /\ watchConns' = (IF fifoOpen THEN 0 ELSE watchConns)
  /\ fifoOpen' = FALSE
  /\ fifoData' = (IF fifoOpen THEN <<>> ELSE fifoData)
  /\ UNCHANGED <<fifoName, watched, pending, fifoEmitted, fifoCalls>>

\* ~Cmd without line 42
DestructorKeepsFifo ==
  /\ ~destroyed
  /\ stack = <<>> \/ At("run", "loop")
  /\ stack' = Append(stack, [Frame("dtor") EXCEPT !.pc = "disconnected"])
  /\ UNCHANGED <<procVars, bufVars, tickVars, sigVars, timerActive, debug, quitNow, ret,
                 runCount, calls, paused, fifoVars, destroyed>>

\* lines 40-42: the destructor is entered and calls disconnectFifo(). The owner
\* destroys the object when no function of it is active, or, run() being a
\* blocking call, from an event handled by the loop of line 85. What the
\* activation of run does with the destroyed object once the loop gives control
\* back to it is undefined; nothing is modelled of it.
Destructor ==
  /\ ~destroyed
  /\ stack = <<>> \/ At("run", "loop")
  /\ FifoClosed
  /\ stack' = Append(stack, [Frame("dtor") EXCEPT !.pc = "disconnected"])
  /\ UNCHANGED <<procVars, bufVars, tickVars, sigVars, timerActive, debug, quitNow, ret,
                 runCount, calls, paused, destroyed>>

\* lines 43-44: a child is live, terminate() sends SIGTERM and waits (lines 117-119)
DtorTerminate ==
  /\ At("dtor", "disconnected")
  /\ isRunning
  /\ stack' = Append(SetTop([Top EXCEPT !.pc = "after_terminate"]),
                     [Frame("terminate") EXCEPT !.pc = "wait"])
  /\ UNCHANGED <<procVars, bufVars, tickVars, sigVars, timerActive, debug, quitNow, ret,
                 runCount, calls, paused, fifoVars, destroyed>>

\* lines 44-46: terminate() returned false, kill() sends SIGKILL and waits; its
\* result is not looked at
DtorKill ==
  /\ At("dtor", "after_terminate")
  /\ ret.fn = "terminate" /\ ~ret.ok
  /\ stack' = Append(SetTop([Top EXCEPT !.pc = "after_kill"]),
                     [Frame("kill") EXCEPT !.pc = "wait"])
  /\ UNCHANGED <<procVars, bufVars, tickVars, sigVars, timerActive, debug, quitNow, ret,
                 runCount, calls, paused, fifoVars, destroyed>>

\* line 48: the destructor's body ends: no child was live, terminate() returned
\* true, or kill() has returned
DtorDone ==
  /\ \/ At("dtor", "disconnected") /\ ~isRunning
     \/ At("dtor", "after_terminate") /\ ret.fn = "terminate" /\ ret.ok
     \/ At("dtor", "after_kill")
  /\ stack' = Pop
  /\ destroyed' = TRUE
  /\ UNCHANGED <<procVars, bufVars, tickVars, sigVars, timerActive, debug, quitNow, ret,
                 runCount, calls, paused, fifoVars>>

\* ------------------------------------------- the fifo
\* Cmd::connectFifo, lines 226-240. QFile::setFileName on an open file closes it
\* (line 229); an open fifo of the same name returns true at once (lines 231-233);
\* otherwise open() succeeds or fails, and on success the path is added to the
\* watcher and fileChanged connected to fifoChanged once more (lines 234-237).
ConnectFifo(file_name) ==
  /\ UserPoint
  /\ fifoCalls < MaxFifoCalls
  /\ fifoCalls' = fifoCalls + 1
  /\ fifoName' = file_name
  /\ IF fifoOpen /\ fifoName = file_name
       THEN /\ ret' = Ret("connectFifo", 0, TRUE, 0)
            /\ UNCHANGED <<fifoOpen, watched, watchConns, fifoData>>
       ELSE \E opened \in BOOLEAN :
              /\ fifoOpen' = opened
              /\ watched' = (IF opened THEN watched \cup {file_name} ELSE watched)
              /\ watchConns' = (IF opened THEN watchConns + 1 ELSE watchConns)
              /\ fifoData' = <<>>
              /\ ret' = Ret("connectFifo", 0, opened, 0)
  /\ UNCHANGED <<stack, procVars, bufVars, tickVars, sigVars, timerActive, debug, quitNow,
                 runCount, calls, paused, pending, fifoEmitted, destroyed>>

\* Cmd::disconnectFifo, lines 242-248, called by the user
DisconnectFifo ==
  /\ UserPoint
  /\ fifoCalls < MaxFifoCalls
  /\ watchConns' = (IF fifoOpen THEN 0 ELSE watchConns)
  /\ fifoOpen' = FALSE
  /\ fifoData' = (IF fifoOpen THEN <<>> ELSE fifoData)
  /\ fifoCalls' = fifoCalls + 1
  /\ UNCHANGED <<stack, procVars, bufVars, tickVars, sigVars, timerActive, debug, quitNow,
                 ret, runCount, calls, paused, fifoName, watched, pending, fifoEmitted,
                 destroyed>>

\* Cmd::writeToFifo, lines 132-142. Without an open fifo nothing is written (the
\* file does not exist, line 135, or write() on the closed file fails). Otherwise
\* the line goes into the fifo. blockSignals(true) and blockSignals(false), lines
\* 138 and 141, enclose the write and the flush only: the watcher learns of the
\* change from the event loop, after writeToFifo has returned, so the change
\* waits in pending like anybody's.
WriteToFifo ==
  /\ UserPoint
  /\ fifoCalls < MaxFifoCalls
  /\ fifoCalls' = fifoCalls + 1
  /\ IF fifoOpen
       THEN /\ fifoData' = Append(fifoData, "self")
            /\ pending' = pending \cup ({fifoName} \cap watched)
       ELSE UNCHANGED <<fifoData, pending>>
  /\ UNCHANGED <<stack, procVars, bufVars, tickVars, sigVars, timerActive, debug, quitNow,
                 ret, runCount, calls, paused, fifoName, fifoOpen, watched, watchConns,
                 fifoEmitted, destroyed>>

\* another process writes a line into a watched file
ForeignWrite ==
  /\ ~destroyed
  /\ fifoCalls < MaxFifoCalls
  /\ fifoCalls' = fifoCalls + 1
  /\ \E path \in watched :
       /\ pending' = pending \cup {path}
       /\ fifoData' = (IF fifoOpen /\ fifoName = path
                         THEN Append(fifoData, "ext") ELSE fifoData)
  /\ UNCHANGED <<stack, procVars, bufVars, tickVars, sigVars, timerActive, debug, quitNow,
                 ret, runCount, calls, paused, fifoName, fifoOpen, watched, watchConns,
                 fifoEmitted, destroyed>>

\* the event loop lets the watcher emit fileChanged(path), line 236: every
\* connection calls fifoChanged; without a connection nothing is called
fileChanged ==
  /\ AtLoop
  /\ \E path \in pending : pending' = pending \ {path}
  /\ stack' = (IF watchConns = 0 THEN stack
               ELSE Append(stack, [Frame("fifoChanged") EXCEPT !.n = watchConns]))
  /\ UNCHANGED <<procVars, bufVars, tickVars, sigVars, timerActive, debug, quitNow, ret,
                 runCount, calls, paused, fifoName, fifoOpen, watched, watchConns,
                 fifoData, fifoEmitted, fifoCalls, destroyed>>

\* Cmd::fifoChanged, lines 145-153: what can be read from the fifo is read and,
\* unless it is empty, emitted through fifoChangeAvailable
fifoChanged ==
  /\ At("fifoChanged", "start")
  /\ LET text == IF fifoOpen THEN fifoData ELSE <<>> IN
       /\ fifoData' = <<>>
       /\ fifoEmitted' = fifoEmitted \o text
       /\ stack' = SetTop([Top EXCEPT !.pc = IF text = <<>> THEN "done" ELSE "emit_fifo"])
  /\ UNCHANGED <<procVars, bufVars, tickVars, sigVars, timerActive, debug, quitNow, ret,
                 runCount, calls, paused, fifoName, fifoOpen, watched, watchConns,
                 pending, fifoCalls, destroyed>>

\* fifoChanged returns; the next connection of this emission is served, if any
fifoChangedReturn ==
  /\ At("fifoChanged", "emit_fifo") \/ At("fifoChanged", "done")
  /\ stack' = (IF Top.n > 1 /\ watchConns > 0
                 THEN SetTop([Top EXCEPT !.pc = "start", !.n = Top.n - 1])
                 ELSE Pop)
  /\ UNCHANGED <<procVars, bufVars, tickVars, sigVars, timerActive, debug, quitNow, ret,
                 runCount, calls, paused, fifoVars, destroyed>>

Next ==
  \/ \E est \in EstValues, optQuiet \in BOOLEAN : Run(est, optQuiet)
  \/ RunEnterLoop
  \/ RunLoopDone
  \/ RunFallbackTerminate
  \/ RunFallbackKill
  \/ RunFallbackDone
  \/ RunReturn
  \/ Kill
  \/ Terminate
  \/ WaitDied
  \/ WaitTimeout
  \/ StopReturn
  \/ Pause
  \/ Resume
  \/ \E level \in DebugLevels : setDebug(level)
  \/ tick
  \/ tickReturn
  \/ onStdoutAvailable
  \/ StdoutAppend
  \/ onStderrAvailable
  \/ StderrAppend
  \/ ChildExits
  \/ AppQuit
  \/ Destructor
  \/ DtorTerminate
  \/ DtorKill
  \/ DtorDone

Spec == Init /\ [][Next]_vars

\* The fifo and the teardown: the fifo operations, the destructor and what of the
\* child's life the teardown depends on. Output, ticks, pause and resume neither
\* read nor write the fifo and are left out.
FifoNext ==
  \/ \E file_name \in Paths : ConnectFifo(file_name)
  \/ DisconnectFifo
  \/ WriteToFifo
  \/ ForeignWrite
  \/ fileChanged
  \/ fifoChanged
  \/ fifoChangedReturn
  \/ \E est \in EstValues, optQuiet \in BOOLEAN : Run(est, optQuiet)
  \/ RunEnterLoop
  \/ RunLoopDone
  \/ RunFallbackTerminate
  \/ RunFallbackKill
  \/ RunFallbackDone
  \/ RunReturn
  \/ Kill
  \/ Terminate
  \/ WaitDied
  \/ WaitTimeout
  \/ StopReturn
  \/ ChildExits
  \/ AppQuit
  \/ Destructor
  \/ DtorTerminate
  \/ DtorKill
  \/ DtorDone

FifoSpec == Init /\ [][FifoNext]_vars

\* Calls made from the handlers of the first run. The state after the first call
\* of run has been accepted and has started its child (lines 51-68, as
\* RunAccepted leaves it with debug 0 and no "quiet" option); calls counts the
\* calls made after that one, so that a handler of the first run can end the
\* child and start a second run.
ReentryInit ==
  /\ stack = <<[Frame("run") EXCEPT !.pc = "emit_started", !.id = 1, !.spawned = TRUE]>>
  /\ procState = "Running"
  /\ exitCode = 0
  /\ exitStatus = NormalExit
  /\ stopped = FALSE
  /\ timerActive = FALSE
  /\ elapsed_time = 0
  /\ est_duration \in EstValues
  /\ out = <<>>
  /\ err = <<>>
  /\ line_out = <<>>
  /\ line_err = <<>>
  /\ debug = 0
  /\ quitNow = FALSE
  /\ ret = NoReturn
  /\ runCount = 1
  /\ calls = 0
  /\ produced = 0
  /\ procRun = 1
  /\ live = {1}
  /\ childExit = [i \in RunIds |-> NoExit]
  /\ startedCount = [i \in RunIds |-> IF i = 1 THEN 1 ELSE 0]
  /\ finishedCount = [i \in RunIds |-> 0]
  /\ finishedLive = FALSE
  /\ emittedOut = <<>>
  /\ emittedErr = <<>>
  /\ ticks = <<>>
  /\ paused = FALSE
  /\ fifoName = ""
  /\ fifoOpen = FALSE
  /\ watched = {}
  /\ watchConns = 0
  /\ fifoData = <<>>
  /\ pending = {}
  /\ fifoEmitted = <<>>
  /\ fifoCalls = 0
  /\ destroyed = FALSE

ReentryNext ==
  \/ \E est \in EstValues, optQuiet \in BOOLEAN : Run(est, optQuiet)
  \/ RunEnterLoop
  \/ RunLoopDone
  \/ RunReturn
  \/ Kill
  \/ Terminate
  \/ WaitDied
  \/ WaitTimeout
  \/ StopReturn
  \/ tick
  \/ tickReturn
  \/ onStdoutAvailable
  \/ StdoutAppend
  \/ onStderrAvailable
  \/ StderrAppend
  \/ ChildExits

ReentrySpec == ReentryInit /\ [][ReentryNext]_vars

\* The steps the program takes by itself: a function goes on after its subscribers
\* have returned, waitForFinished(1000) ends within its bound, an armed timer fires.
\* What the caller, the subscribers, the child and the application do is not in it.
ProgramStep ==
  \/ RunEnterLoop
  \/ RunLoopDone
  \/ RunFallbackTerminate
  \/ RunFallbackKill
  \/ RunFallbackDone
  \/ RunReturn
  \/ WaitDied
  \/ WaitTimeout
  \/ StopReturn
  \/ tick
  \/ tickReturn
  \/ StdoutAppend
  \/ StderrAppend
  \/ DtorTerminate
  \/ DtorKill
  \/ DtorDone

FairSpec == Init /\ [][Next]_vars /\ WF_vars(ProgramStep)
\* ============================================================ properties
\* the accepted runs that have returned
Returned(i) == i <= runCount /\ \A k \in DOMAIN stack : stack[k].id # i

\* C1: in a state where a child is live, a call of run returns -1, spawns no
\* child, and leaves the call stack, both buffers, the elapsed counter and the
\* estimated duration as they were; and at no time is more than one child live.
C1_RunWhileLiveRejected ==
  /\ [](Cardinality(live) <= 1)
  /\ [][\A est \in EstValues, q \in BOOLEAN :
          (isRunning /\ Run(est, q)) =>
            /\ ret'.fn = "run" /\ ret'.val = -1
            /\ UNCHANGED <<stack, runCount, live, procRun, procState, out, err,
                           elapsed_time, est_duration>>]_vars

\* a run has been rejected while the in-flight run had output in its buffer and
\* a tick counted
C1_Witness ==
  /\ ret.fn = "run" /\ ret.val = -1
  /\ isRunning /\ Cardinality(live) = 1
  /\ out # <<>> /\ elapsed_time > 0

\* C2: finished is emitted at most once for a run, and exactly once for a run
\* that has returned.
C2_FinishedExactlyOnce ==
  \A i \in RunIds :
    /\ finishedCount[i] <= 1
    /\ Returned(i) => finishedCount[i] = 1

\* C3: no finished is emitted while isRunning() is true.
C3_FinishedOnlyWhenNotRunning == ~finishedLive

\* C4: an accepted run returns only when isRunning() is false.
C4_RunReturnsAfterChild == [][RunReturn => ~isRunning]_vars
\* C5: once the child of an accepted run has terminated, that run returns (on an
\* object that is not destroyed meanwhile).
C5_RunReturnsOnceChildTerminated ==
  \A i \in RunIds : (childExit[i].done /\ ~Returned(i)) ~> (Returned(i) \/ destroyed)
\* C6: a run whose shell could not be started does not enter the wait of line 85,
\* and the ticker is not armed on its behalf.
C6_SpawnFailureFailsFast ==
  \A k \in DOMAIN stack :
    (stack[k].fn = "run" /\ ~stack[k].spawned) =>
      /\ stack[k].pc # "loop"
      /\ (procRun = stack[k].id => ~timerActive)

\* C7: the value an accepted run returns is the one its own child determines: the
\* exit code K after a normal exit, the crash status after a crash.
C7_RunReturnsOwnExitCode ==
  (ret.fn = "run" /\ ret.id \in RunIds /\ childExit[ret.id].done) =>
    ret.val = (IF childExit[ret.id].status # NormalExit
                 THEN childExit[ret.id].status
                 ELSE childExit[ret.id].code)

\* C8: whenever no drain slot is in progress, each buffer is the in-order
\* concatenation of the chunks emitted for its stream since the last accepted run.
C8_BuffersEqualEmittedChunks ==
  /\ (\A k \in DOMAIN stack : stack[k].fn # "onStdoutAvailable") => out = emittedOut
  /\ (\A k \in DOMAIN stack : stack[k].fn # "onStderrAvailable") => err = emittedErr

\* C9: from a successful pause() to the next resume() (or the child's end) no
\* runTime is emitted and the elapsed counter keeps its value.
C9_NoTickWhilePaused ==
  [][(paused /\ paused') => (elapsed_time' = elapsed_time /\ ticks' = ticks)]_vars

\* C10: the ticker is armed only while a child is live.
C10_TickerArmedOnlyWhileRunning == timerActive => isRunning

\* C11: kill() and terminate() called while no child is live return true and
\* change nothing: no signal is sent (the child's state is as it was), finished
\* is not emitted, and the buffers, the elapsed counter, the ticker and the fifo
\* are unchanged; no function is entered either.
C11_StopWithoutChildIsNoOp ==
  [][(~isRunning /\ (Kill \/ Terminate)) =>
       /\ ret'.fn \in {"kill", "terminate"} /\ ret'.ok
       /\ UNCHANGED <<stack, procVars, bufVars, tickVars, sigVars, timerActive, debug,
                      quitNow, runCount, paused, fifoVars, destroyed>>]_vars

\* run 1 has produced output, emitted its one finished and returned, and kill()
\* was called after that and returned true
C11_Witness ==
  /\ stack = <<>>
  /\ runCount = 1 /\ finishedCount[1] = 1
  /\ out # <<>>
  /\ ret.fn = "kill" /\ ret.ok

\* C12: destroying the object while a child is live leaves no live child: when
\* the destructor has completed, the child is in a terminal state, also when
\* terminate() was not acknowledged within its wait.
C12_DestroyedLeavesNoLiveChild == destroyed => ~isRunning

\* C13: a line written by writeToFifo never comes back through
\* fifoChangeAvailable, also when the watcher signals the change after
\* writeToFifo has returned.
C13_SelfWriteNotNotified == \A k \in DOMAIN fifoEmitted : fifoEmitted[k] # "self"

\* C14: a path is registered in the watcher if and only if the fifo is open, and
\* then it is the fifo's path; after disconnectFifo and after a failed open no
\* path is registered.
C14_WatchedIffOpen == watched = (IF fifoOpen THEN {fifoName} ELSE {})

\* C15: connectFifo with another path, called while the fifo is open, changes
\* neither the path, the open handle, the watched paths nor the number of
\* connections of fileChanged to fifoChanged.
C15_PathImmutableWhileOpen ==
  [][\A file_name \in Paths :
       (fifoOpen /\ fifoName # file_name /\ ConnectFifo(file_name)) =>
         UNCHANGED <<fifoName, fifoOpen, fifoData, watched, watchConns>>]_vars

\* C16: kill() and terminate() on a live child wait once and return: the wait
\* that ends without the child's death leaves the child as it is, the activation
\* never goes back to waiting once the wait is over, and the value returned is
\* true exactly when isRunning() is false at the return, which the return itself
\* does not change.
C16_StopWaitsOnceAndReportsLiveness ==
  [][/\ WaitTimeout => (isRunning' = isRunning)
     /\ StopReturn => (ret'.ok = ~isRunning /\ isRunning' = isRunning /\ Len(stack') < Len(stack))
     /\ \A k \in DOMAIN stack \cap DOMAIN stack' :
          (stack[k].fn \in {"kill", "terminate"} /\ stack[k].pc = "emit_finished") =>
            stack'[k] = stack[k]]_vars

\* terminate() has returned false with the child still running, and the kill()
\* called after it is waiting
C16_Witness ==
  /\ ret.fn = "terminate" /\ ~ret.ok
  /\ isRunning
  /\ InWait /\ Top.fn = "kill"

C20_StartedOncePerAcceptedRun ==
  /\ [](/\ \A i \in RunIds : startedCount[i] = (IF i <= runCount THEN 1 ELSE 0)
        /\ \A i \in RunIds : finishedCount[i] > 0 => startedCount[i] = 1
        /\ (ticks # <<>> \/ emittedOut # <<>> \/ emittedErr # <<>>) =>
             (runCount \in RunIds /\ startedCount[runCount] = 1))
  /\ [][\A est \in EstValues, q \in BOOLEAN :
          (isRunning /\ Run(est, q)) => UNCHANGED startedCount]_vars

\* the second accepted run has emitted started, output and finished
C20_Witness ==
  /\ runCount = 2 /\ startedCount[2] = 1
  /\ finishedCount[2] > 0
  /\ emittedOut # <<>>

\* C18: the destructor disconnects the fifo before anything else; it calls
\* terminate() only after that and only with a live child; and kill() is called
\* by the destructor, and by run after its loop, only when the terminate() called
\* just before has returned false.
C18_TeardownEscalates ==
  [][LET called == Len(stack') = Len(stack) + 1
         caller == stack'[Len(stack)]
         callee == stack'[Len(stack')]
     IN  /\ Destructor => (~fifoOpen' /\ (fifoOpen => watchConns' = 0) /\ called
                             /\ callee.fn = "dtor" /\ UNCHANGED procVars)
         /\ (called /\ Len(stack) > 0 /\ caller.fn = "dtor" /\ callee.fn = "terminate") =>
              (stack[Len(stack)].pc = "disconnected" /\ ~fifoOpen /\ isRunning)
         /\ (called /\ Len(stack) > 0 /\ callee.fn = "kill"
               /\ (caller.fn = "dtor" \/ (caller.fn = "run" /\ caller.pc # "loop"
                                            /\ caller.pc \notin EmitPcs))) =>
              (ret.fn = "terminate" /\ ~ret.ok /\ isRunning
                 /\ stack[Len(stack)].pc = "after_terminate")]_vars

\* the destructor found the fifo open and a child live, has disconnected the
\* fifo, and terminate() having failed, waits in kill()
C18_Witness ==
  /\ Len(stack) >= 2
  /\ stack[Len(stack) - 1].fn = "dtor"
  /\ InWait /\ Top.fn = "kill"
  /\ fifoName # "" /\ ~fifoOpen /\ watched # {} /\ watchConns = 0
  /\ fifoCalls = 1

\* the chunks in s are all among those in t
ChunksAmong(s, t) == \A k \in DOMAIN s : \E j \in DOMAIN t : s[k] = t[j]

\* C17: every accepted run starts with both buffers empty and the counter at 0,
\* so that once the calls have returned the buffers hold only what the child of
\* the last accepted run has produced, and the first tick of a run carries 1.
C17_BuffersHoldThisRunOnly ==
  /\ ticks # <<>> => ticks[1][1] = 1
  /\ stack = <<>> => (ChunksAmong(out, emittedOut) /\ ChunksAmong(err, emittedErr))

====
